---- MODULE Spec2Model ----
(***************************************************************************)
(* Model of the Home screen of task-reminder (src/Screens/Home.js): the    *)
(* per-task countdown slots (taskStatuses), the stored interval handles    *)
(* (timers), the in-memory and the persisted task list, the intervals the  *)
(* JavaScript runtime keeps firing, and the notifications sent on expiry.  *)
(*                                                                         *)
(* Indices are 1-based here: index i of the model is index i-1 of the      *)
(* JavaScript arrays and objects.                                          *)
(*                                                                         *)
(* A string is a sequence of one-character strings, so that formatTime and *)
(* the parsing done by startTimer are computed character by character.     *)
(***************************************************************************)
EXTENDS Integers, Sequences, FiniteSets, TLC

\* ------------------------------------------------------------------ bounds
\* Longest task list in storage.
MaxTasks == 2
\* Number of setInterval calls made over a run.
MaxTimers == 2
\* Longest task duration, in minutes, among the stored tasks.
MaxMinutes == 2
\* Number of failures (of a storage read, a storage write or a notification
\* delivery) over a run.
MaxFaults == 2
\* Largest number of minutes formatted and parsed back.
MaxRoundTrip == 130

\* ------------------------------------------------------------- JS strings
DIGITS == <<"0", "1", "2", "3", "4", "5", "6", "7", "8", "9">>

IsDigit(c) == \E d \in 1..10 : DIGITS[d] = c

DigitVal(c) == (CHOOSE d \in 1..10 : DIGITS[d] = c) - 1

\* The value parseInt and arithmetic give when there is no number.
NaN == -1000000

\* String(n) for a non-negative integer n.
RECURSIVE NumToStr(_)
NumToStr(n) ==
    IF n < 10 THEN <<DIGITS[n + 1]>>
    ELSE NumToStr(n \div 10) \o <<DIGITS[(n % 10) + 1]>>

\* Template-literal rendering of a number: NaN prints as "NaN".
JsNumStr(n) == IF n = NaN THEN <<"N", "a", "N">> ELSE NumToStr(n)

\* As formatTime, but the minutes are not reduced modulo 60.
formatTimeTotalMinutes(totalMinutes) ==
    LET hours == IF totalMinutes = NaN THEN NaN ELSE totalMinutes \div 60
        minutes == totalMinutes
    IN  JsNumStr(hours) \o <<"h", " ">>
        \o (IF minutes # NaN /\ minutes < 10 THEN <<"0">> ELSE <<>>)
        \o JsNumStr(minutes) \o <<"m">>

\* formatTime: `${hours}h ${minutes < 10 ? '0' : ''}${minutes}m`.
\* NaN < 10 is false, so no padding is added to NaN.
formatTime(totalMinutes) ==
    LET hours == IF totalMinutes = NaN THEN NaN ELSE totalMinutes \div 60
        minutes == IF totalMinutes = NaN THEN NaN ELSE totalMinutes % 60
    IN  JsNumStr(hours) \o <<"h", " ">>
        \o (IF minutes # NaN /\ minutes < 10 THEN <<"0">> ELSE <<>>)
        \o JsNumStr(minutes) \o <<"m">>

\* s.replace(c, ''): drops the first occurrence of the character c.
RECURSIVE ReplaceFirst(_, _)
ReplaceFirst(s, c) ==
    IF s = <<>> THEN <<>>
    ELSE IF Head(s) = c THEN Tail(s)
    ELSE <<Head(s)>> \o ReplaceFirst(Tail(s), c)

\* s.split(' '): the pieces between spaces, empty pieces included.
RECURSIVE SplitSpace(_, _)
SplitSpace(s, cur) ==
    IF s = <<>> THEN <<cur>>
    ELSE IF Head(s) = " " THEN <<cur>> \o SplitSpace(Tail(s), <<>>)
    ELSE SplitSpace(Tail(s), Append(cur, Head(s)))

\* parseInt(s, 10) on a string of this alphabet: the value of the leading
\* run of digits, NaN when there is none.
RECURSIVE DigitsValue(_, _, _)
DigitsValue(s, acc, seen) ==
    IF s # <<>> /\ IsDigit(Head(s))
    THEN DigitsValue(Tail(s), acc * 10 + DigitVal(Head(s)), TRUE)
    ELSE IF seen THEN acc ELSE NaN

parseInt(s) == DigitsValue(s, 0, FALSE)

\* The parse at the head of startTimer: strip the first 'h' and the first
\* 'm', split on spaces, parseInt each piece, take the first two pieces as
\* [hours, minutes] and return hours * 60 + minutes.  A missing piece is
\* undefined, and arithmetic on undefined or NaN gives NaN.
parseRemaining(s) ==
    LET parts == SplitSpace(ReplaceFirst(ReplaceFirst(s, "h"), "m"), <<>>)
        hours == parseInt(parts[1])
        minutes == IF Len(parts) >= 2 THEN parseInt(parts[2]) ELSE NaN
    IN  IF hours = NaN \/ minutes = NaN THEN NaN ELSE (hours * 60) + minutes

\* ------------------------------------------------------------------ tasks
\* A duration string as the Add and Edit screens store it: "<H>h <MM>m".
DurationStr(m) ==
    NumToStr(m \div 60) \o <<"h", " ">>
    \o <<DIGITS[((m % 60) \div 10) + 1], DIGITS[((m % 60) % 10) + 1]>> \o <<"m">>

Titles == {"A", "B"}

Times == {DurationStr(m) : m \in 0..MaxMinutes}

\* A persisted task; only the fields this screen's logic reads.
Tasks == [title : Titles, time : Times]

TaskLists == UNION {[1..n -> Tasks] : n \in 0..MaxTasks}

\* A slot as fetchTasks builds it.
IdleSlot(task) ==
    [doing |-> FALSE, originalTime |-> task.time, remainingTime |-> task.time]

\* The value of a timers entry that holds no interval id (null).
NoTimer == 0

\* ------------------------------------------------------------------ state
\* A handler runs in the render that follows the last state update: React
\* re-renders before the next event is delivered, so a handler reads the
\* current tasks, taskStatuses and timers.  The one exception modelled is a
\* second handleToggle call made from the same render (ToggleTwice).
VARIABLES
    storage,       \* the task list persisted under the key 'tasks'
    tasks,         \* useState: tasks
    taskStatuses,  \* useState: taskStatuses, index -> slot object
    timers,        \* useState: timers, index -> interval id or NoTimer
    intervals,     \* the intervals setInterval made and nothing has cleared
    nextId,        \* the id the next setInterval returns
    notified,      \* titles passed to sendNotification, in order
    crashed,       \* a state updater threw while React applied it
    screen,        \* "home" when the screen has focus, "blurred" otherwise
    lastOp,        \* history: the operation that ran last
    run,           \* history: the countdown started last, while nothing but
                   \* its own ticks has run since; NoRun otherwise
    stopped,       \* history: the indices whose slot a stop branch reset,
                   \* with no start of that index and no reload since
    consoleErrors, \* the messages passed to console.error, in order
    rejections,    \* the async functions whose promise rejected, in order
    probe,         \* a number of minutes, the string formatTime makes of it
                   \* and the number startTimer's parse makes of that string
    startedTitle   \* history: for the id of each scheduled interval, the
                   \* title of the task at its index when it was started

vars == <<storage, tasks, taskStatuses, timers, intervals, nextId, notified,
          crashed, screen, lastOp, run, stopped, consoleErrors, rejections,
          probe, startedTitle>>

NoRun == [id |-> 0, idx |-> 0, M |-> 0, R |-> 0, k |-> 0, n0 |-> 0]

Op(name, idx) == [op |-> name, idx |-> idx]

\* The probe while nothing is formatted or parsed.
NoProbe == [stage |-> "none", m |-> 0, text |-> <<>>, back |-> 0]

\* The component's state after construction: the useState initial values,
\* nothing scheduled, nothing sent.
Constructed ==
    /\ tasks = <<>>
    /\ taskStatuses = <<>>
    /\ timers = <<>>
    /\ intervals = {}
    /\ nextId = 1
    /\ notified = <<>>
    /\ crashed = FALSE
    /\ screen = "blurred"
    /\ lastOp = Op("init", 0)
    /\ run = NoRun
    /\ stopped = {}
    /\ consoleErrors = <<>>
    /\ rejections = <<>>
    /\ startedTitle = <<>>

Init ==
    /\ storage \in TaskLists
    /\ Constructed
    /\ probe = NoProbe

\* ------------------------------------------------------------- fetchTasks
\* As InitStatuses, but a slot that exists already is kept as it is.
InitStatusesKeepingOld(tasksArray) ==
    [i \in 1..Len(tasksArray) |->
        IF i \in DOMAIN taskStatuses THEN taskStatuses[i] ELSE IdleSlot(tasksArray[i])]

\* The slot map and the timers map fetchTasks builds for a task array.
InitStatuses(tasksArray) == [i \in 1..Len(tasksArray) |-> IdleSlot(tasksArray[i])]

InitTimers(tasksArray) == [i \in 1..Len(tasksArray) |-> NoTimer]

\* useFocusEffect: the screen gains focus and fetchTasks runs to its end with
\* a successful read.  No interval is cleared.
fetchTasks ==
    /\ ~crashed
    /\ screen = "blurred"
    /\ tasks' = storage
    /\ taskStatuses' = InitStatuses(storage)
    /\ timers' = InitTimers(storage)
    /\ screen' = "home"
    /\ lastOp' = Op("load", 0)
    /\ run' = NoRun
    /\ stopped' = {}
    /\ UNCHANGED <<storage, intervals, nextId, notified, crashed>>
    /\ UNCHANGED <<consoleErrors, rejections, probe, startedTitle>>

\* The failures so far: each one ended in a console.error or in a rejected
\* promise.
Faults == Len(consoleErrors) + Len(rejections)

\* fetchTasks when getItem rejects or JSON.parse throws: the catch logs and
\* no state is set; the promise fetchTasks returns resolves.
fetchTasksFail ==
    /\ ~crashed
    /\ screen = "blurred"
    /\ Faults < MaxFaults
    /\ screen' = "home"
    /\ consoleErrors' = Append(consoleErrors, "Error fetching tasks:")
    /\ lastOp' = Op("loadFail", 0)
    /\ run' = NoRun
    /\ UNCHANGED <<stopped, storage, tasks, taskStatuses, timers, intervals, nextId,
                   notified, crashed, rejections, probe,
                   startedTitle>>

\* ------------------------------------------------------------- startTimer
\* obj with key k set to v ({...obj, [k]: v}).
SetKey(obj, k, v) == [x \in (DOMAIN obj) \cup {k} |-> IF x = k THEN v ELSE obj[x]]

\* The closure of the interval startTimer(index) creates: its id, the index,
\* the local remainingTimeInMinutes, and what its reads of the captured tasks
\* and taskStatuses give on expiry (tasks[index].title and
\* taskStatuses[index].originalTime: arrays of tasks are never mutated, and
\* originalTime of a slot object is never reassigned).
NewInterval(index) ==
    [id |-> nextId,
     index |-> index,
     remaining |-> parseRemaining(taskStatuses[index].remainingTime),
     title |-> tasks[index].title,
     orig |-> taskStatuses[index].originalTime]

\* clearInterval(id): null, undefined and ids of cleared intervals are no-ops.
ClearInterval(set, id) == {iv \in set : iv.id # id}

\* obj without its key k.
Forget(obj, k) == [x \in (DOMAIN obj) \ {k} |-> obj[x]]

\* ----------------------------------------------------------- handleToggle
\* The slot map after handleToggle's start branch mutated the slot at index.
StartedStatuses(index) == [taskStatuses EXCEPT ![index].doing = TRUE]

\* As StoppedStatuses, but remainingTime is left as it is (a pause).
StoppedStatusesPausing(index) == [taskStatuses EXCEPT ![index].doing = FALSE]

\* The slot map after handleToggle's stop branch mutated the slot at index.
StoppedStatuses(index) ==
    [taskStatuses EXCEPT ![index].doing = FALSE,
                         ![index].remainingTime = taskStatuses[index].originalTime]

\* timers[index] as handleToggle's stop branch reads it.
StoredHandle(index) == IF index \in DOMAIN timers THEN timers[index] ELSE NoTimer

\* A row, and so a Start/Doing button, is rendered per element of tasks;
\* handleToggle reads taskStatuses[index] without a guard.
Pressable(index) ==
    /\ ~crashed
    /\ screen = "home"
    /\ index \in 1..Len(tasks)
    /\ index \in DOMAIN taskStatuses

\* Pressing Start on an idle slot: handleToggle's start branch with the whole
\* of startTimer.
ToggleStart(index) ==
    /\ Pressable(index)
    /\ ~taskStatuses[index].doing
    /\ nextId <= MaxTimers
    /\ intervals' = intervals \cup {NewInterval(index)}
    /\ nextId' = nextId + 1
    /\ timers' = SetKey(timers, index, nextId)
    /\ taskStatuses' = StartedStatuses(index)
    /\ lastOp' = Op("start", index)
    /\ run' = [id |-> nextId, idx |-> index, k |-> 0, n0 |-> Len(notified),
               M |-> parseRemaining(taskStatuses[index].originalTime),
               R |-> parseRemaining(taskStatuses[index].remainingTime)]
    /\ stopped' = stopped \ {index}
    /\ UNCHANGED <<storage, tasks, notified, crashed, screen>>
    /\ startedTitle' = SetKey(startedTitle, nextId, tasks[index].title)
    /\ UNCHANGED <<consoleErrors, rejections, probe>>

\* Pressing Doing on a running slot: handleToggle's stop branch.
ToggleStop(index) ==
    /\ Pressable(index)
    /\ taskStatuses[index].doing
    /\ intervals' = ClearInterval(intervals, StoredHandle(index))
    /\ taskStatuses' = StoppedStatuses(index)
    /\ lastOp' = Op("stop", index)
    /\ run' = NoRun
    /\ stopped' = stopped \cup {index}
    /\ UNCHANGED <<storage, tasks, timers, nextId, notified, crashed, screen>>
    /\ startedTitle' = Forget(startedTitle, StoredHandle(index))
    /\ UNCHANGED <<consoleErrors, rejections, probe>>

\* handleToggle(index) called twice from one render on an idle slot.  Both
\* calls close over the same taskStatuses and timers; the first call mutates
\* the slot object in place (doing = true), so the second takes the stop
\* branch, where timers[index] is still the value of that render.
ToggleTwice(index) ==
    /\ Pressable(index)
    /\ ~taskStatuses[index].doing
    /\ nextId <= MaxTimers
    /\ intervals' = ClearInterval(intervals \cup {NewInterval(index)}, StoredHandle(index))
    /\ nextId' = nextId + 1
    /\ timers' = SetKey(timers, index, nextId)
    /\ taskStatuses' = StoppedStatuses(index)
    /\ lastOp' = Op("startStop", index)
    /\ run' = NoRun
    /\ stopped' = stopped \cup {index}
    /\ UNCHANGED <<storage, tasks, notified, crashed, screen>>
    /\ startedTitle' = Forget(SetKey(startedTitle, nextId, tasks[index].title),
                            StoredHandle(index))
    /\ UNCHANGED <<consoleErrors, rejections, probe>>

\* ------------------------------------------------------ interval callback
\* As Decremented, but the counter goes down by two.
DecrementedByTwo(n) == IF n = NaN THEN NaN ELSE n - 2

\* remainingTimeInMinutes -= 1 (NaN stays NaN).
Decremented(n) == IF n = NaN THEN NaN ELSE n - 1

\* remainingTimeInMinutes <= 0 (false for NaN).
RanOut(n) == n # NaN /\ n <= 0

\* The slot map after the state updater of a tick of interval iv ran on it:
\* the expiry updater resets the slot, updateTime writes the formatted time.
TickedStatuses(prevStatuses, iv) ==
    IF RanOut(Decremented(iv.remaining))
    THEN [prevStatuses EXCEPT ![iv.index].doing = FALSE,
                              ![iv.index].remainingTime = iv.orig]
    ELSE [prevStatuses EXCEPT
              ![iv.index].remainingTime = formatTime(Decremented(iv.remaining))]

\* The intervals left after a tick of iv: an expiring interval clears itself,
\* any other keeps its decremented counter.
TickedIntervals(iv) ==
    IF RanOut(Decremented(iv.remaining))
    THEN ClearInterval(intervals, iv.id)
    ELSE (intervals \ {iv}) \cup {[iv EXCEPT !.remaining = Decremented(iv.remaining)]}

\* As NotifiedTitle, but the title is read from the task list of the moment
\* of the expiry.
NotifiedTitleAtExpiry(iv) ==
    IF iv.index \in DOMAIN tasks THEN tasks[iv.index].title ELSE ""

\* The argument of sendNotification on line 129: tasks[index].title, with
\* tasks the array of the render startTimer ran in.
NotifiedTitle(iv) == iv.title

\* One firing of the callback of interval iv.  Its updater writes
\* updatedStatuses[index] of the current state; with no slot at that index
\* the updater throws.  Once an updater has thrown the component is
\* unmounted: no handler of it runs any more, while the intervals, which
\* belong to the JavaScript runtime, go on firing with their state updates
\* dropped.
Tick(iv) ==
    /\ iv \in intervals
    /\ intervals' = TickedIntervals(iv)
    /\ notified' = IF RanOut(Decremented(iv.remaining))
                   THEN Append(notified, NotifiedTitle(iv)) ELSE notified
    /\ IF ~crashed /\ iv.index \in DOMAIN taskStatuses
       THEN /\ taskStatuses' = TickedStatuses(taskStatuses, iv)
            /\ crashed' = FALSE
       ELSE /\ taskStatuses' = taskStatuses
            /\ crashed' = TRUE
    /\ lastOp' = Op(IF RanOut(Decremented(iv.remaining)) THEN "expire" ELSE "tick",
                    iv.index)
    /\ run' = IF run # NoRun /\ iv.id = run.id /\ (run.k < run.M \/ run.k < run.R)
              THEN [run EXCEPT !.k = run.k + 1] ELSE NoRun
    /\ UNCHANGED <<storage, tasks, timers, nextId, screen, stopped>>
    /\ startedTitle' = IF RanOut(Decremented(iv.remaining))
                       THEN Forget(startedTitle, iv.id) ELSE startedTitle
    /\ UNCHANGED <<consoleErrors, rejections, probe>>

\* As UndeliveredStatuses, but the failure stops the callback before its
\* state update (as an awaited or synchronous failure would).
UndeliveredStatusesAborted(prevStatuses, iv) == prevStatuses

\* The slot map after the expiry updater of interval iv ran, when the promise
\* of sendNotification rejects: the call on line 129 is not awaited, so the
\* callback goes on to setTaskStatuses as on a delivery.
UndeliveredStatuses(prevStatuses, iv) == TickedStatuses(prevStatuses, iv)

\* The expiring firing of the callback of interval iv when the delivery of
\* the notification fails: scheduleNotificationAsync rejects (or Notification
\* is not there to read), so the promise sendNotification returns rejects,
\* with no handler and nothing logged.  A denied permission on the web makes
\* sendNotification return without an alert and without a rejection: that is
\* Tick, which records the call and not the alert.
TickUndelivered(iv) ==
    /\ iv \in intervals
    /\ RanOut(Decremented(iv.remaining))
    /\ Faults < MaxFaults
    /\ intervals' = TickedIntervals(iv)
    /\ notified' = Append(notified, NotifiedTitle(iv))
    /\ startedTitle' = Forget(startedTitle, iv.id)
    /\ rejections' = Append(rejections, "sendNotification")
    /\ IF ~crashed /\ iv.index \in DOMAIN taskStatuses
       THEN /\ taskStatuses' = UndeliveredStatuses(taskStatuses, iv)
            /\ crashed' = FALSE
       ELSE /\ taskStatuses' = taskStatuses
            /\ crashed' = TRUE
    /\ lastOp' = Op("expireUndelivered", iv.index)
    /\ run' = NoRun
    /\ UNCHANGED <<storage, tasks, timers, nextId, screen, stopped, consoleErrors,
                   probe>>

\* ------------------------------------------------------------- navigation
\* Leaving the screen for another one (Add, Profile, ...) without a change
\* to the tasks.
Blur ==
    /\ ~crashed
    /\ screen = "home"
    /\ screen' = "blurred"
    /\ UNCHANGED <<storage, tasks, taskStatuses, timers, intervals, nextId,
                   notified, crashed, lastOp, run, stopped>>
    /\ UNCHANGED <<consoleErrors, rejections, probe, startedTitle>>

\* ------------------------------------------------------------- updateTask
\* As RemoveAt, but the element before index goes (an off-by-one splice).
RemoveAtOffByOne(list, index) ==
    [i \in 1..(Len(list) - 1) |-> IF i < index - 1 THEN list[i] ELSE list[i + 1]]

\* list without its element at index (splice(index, 1) on a copy).
RemoveAt(list, index) ==
    [i \in 1..(Len(list) - 1) |-> IF i < index THEN list[i] ELSE list[i + 1]]

\* Stands for the null that updateTask takes for a deletion.
NoTask == [title |-> "", time |-> <<>>]

\* updatedTasks of updateTask(index, updatedTask).
UpdatedTasks(list, index, updatedTask) ==
    IF updatedTask = NoTask THEN RemoveAt(list, index)
    ELSE [list EXCEPT ![index] = updatedTask]

\* The left icon of row index opens EditTaskScreen, which calls
\* updateTask(index, updatedTask); the write to storage succeeds.  The screen
\* is out of focus meanwhile.  taskStatuses and timers are not touched.
updateTask(index, updatedTask) ==
    /\ ~crashed
    /\ screen = "home"
    /\ index \in 1..Len(tasks)
    /\ tasks' = UpdatedTasks(tasks, index, updatedTask)
    /\ storage' = UpdatedTasks(tasks, index, updatedTask)
    /\ screen' = "blurred"
    /\ lastOp' = Op(IF updatedTask = NoTask THEN "delete" ELSE "edit", index)
    /\ run' = NoRun
    /\ UNCHANGED <<taskStatuses, timers, intervals, nextId, notified, crashed,
                   stopped>>
    /\ UNCHANGED <<consoleErrors, rejections, probe, startedTitle>>

\* updateTask when setItem rejects: setTasks has run, storage keeps its value.
\* There is no try/catch around the await, so the promise updateTask returns
\* rejects and nothing is logged.
updateTaskFail(index, updatedTask) ==
    /\ ~crashed
    /\ screen = "home"
    /\ index \in 1..Len(tasks)
    /\ Faults < MaxFaults
    /\ rejections' = Append(rejections, "updateTask")
    /\ tasks' = UpdatedTasks(tasks, index, updatedTask)
    /\ screen' = "blurred"
    /\ lastOp' = Op(IF updatedTask = NoTask THEN "deleteFail" ELSE "editFail", index)
    /\ run' = NoRun
    /\ UNCHANGED <<storage, taskStatuses, timers, intervals, nextId, notified,
                   crashed, stopped, consoleErrors, probe,
                   startedTitle>>

\* ---------------------------------------------------------- specification
\* Every handler runs in the render that follows the last state update, and
\* every read of storage and every write to it succeeds.
NextRendered ==
    \/ fetchTasks
    \/ \E index \in 1..MaxTasks : ToggleStart(index)
    \/ \E index \in 1..MaxTasks : ToggleStop(index)
    \/ \E iv \in intervals : Tick(iv)
    \/ Blur
    \/ \E index \in 1..MaxTasks, updatedTask \in Tasks \cup {NoTask} :
          updateTask(index, updatedTask)

SpecRendered == Init /\ [][NextRendered]_vars

\* setInterval fires the callback of a scheduled interval every 60000 ms
\* until clearInterval is called on its id: no scheduled interval stays
\* for ever without firing.  The ids of intervals are 1..MaxTimers.
TicksFair ==
    \A id \in 1..MaxTimers : WF_vars(\E iv \in intervals : iv.id = id /\ Tick(iv))

SpecFair == Init /\ [][NextRendered]_vars /\ TicksFair

\* As NextRendered, and handleToggle may also be called twice from one render.
Next ==
    \/ NextRendered
    \/ \E index \in 1..MaxTasks : ToggleTwice(index)

Spec == Init /\ [][Next]_vars

\* Reads and writes of storage and the delivery of a notification may also
\* fail.  The tasks stored and written here all last one minute.
FaultTasks == [title : Titles, time : {DurationStr(1)}]

InitFaults ==
    /\ storage \in UNION {[1..n -> FaultTasks] : n \in 0..MaxTasks}
    /\ Constructed
    /\ probe = NoProbe

NextFaults ==
    \/ fetchTasks
    \/ fetchTasksFail
    \/ \E index \in 1..MaxTasks : ToggleStart(index)
    \/ \E index \in 1..MaxTasks : ToggleStop(index)
    \/ \E iv \in intervals : Tick(iv)
    \/ \E iv \in intervals : TickUndelivered(iv)
    \/ Blur
    \/ \E index \in 1..MaxTasks, updatedTask \in FaultTasks \cup {NoTask} :
          updateTask(index, updatedTask)
    \/ \E index \in 1..MaxTasks, updatedTask \in FaultTasks \cup {NoTask} :
          updateTaskFail(index, updatedTask)

SpecFaults == InitFaults /\ [][NextFaults]_vars

\* Storage may also hold a task whose time is not "<H>h <MM>m": the time of
\* a task is whatever string was stored, and fetchTasks copies it unchecked.
\* "5" splits into one piece, so minutes is undefined; so does "1h".
MalformedTimes == {<<"5">>, <<"1", "h">>}

MalformedTasks == [title : Titles, time : MalformedTimes]

InitMalformed ==
    /\ storage \in UNION {[1..n -> Tasks \cup MalformedTasks] : n \in 0..MaxTasks}
    /\ Constructed
    /\ probe = NoProbe

NextMalformed ==
    \/ fetchTasks
    \/ \E index \in 1..MaxTasks : ToggleStart(index)
    \/ \E index \in 1..MaxTasks : ToggleStop(index)
    \/ \E iv \in intervals : Tick(iv)
    \/ Blur

SpecMalformed == InitMalformed /\ [][NextMalformed]_vars

\* ------------------------------------------------------ duration strings
\* formatTime and the parse of startTimer applied one after the other to a
\* number of minutes, with no task loaded.
FormatProbe ==
    /\ probe.stage = "minutes"
    /\ probe' = [probe EXCEPT !.stage = "formatted", !.text = formatTime(probe.m)]
    /\ UNCHANGED <<storage, tasks, taskStatuses, timers, intervals, nextId,
                   notified, crashed, screen, lastOp, run, stopped,
                   consoleErrors, rejections, startedTitle>>

ParseProbe ==
    /\ probe.stage = "formatted"
    /\ probe' = [probe EXCEPT !.stage = "parsed", !.back = parseRemaining(probe.text)]
    /\ UNCHANGED <<storage, tasks, taskStatuses, timers, intervals, nextId,
                   notified, crashed, screen, lastOp, run, stopped,
                   consoleErrors, rejections, startedTitle>>

InitRoundTrip ==
    /\ storage = <<>>
    /\ Constructed
    /\ probe \in [stage : {"minutes"}, m : 0..MaxRoundTrip, text : {<<>>}, back : {0}]

NextRoundTrip ==
    \/ FormatProbe
    \/ ParseProbe

SpecRoundTrip == InitRoundTrip /\ [][NextRoundTrip]_vars

\* ------------------------------------------------------------- properties
ActiveIds == {iv.id : iv \in intervals}

\* The intervals whose callback writes the slot at index.
IntervalsOf(index) == {iv \in intervals : iv.index = index}

Reset(slot) == ~slot.doing /\ slot.remainingTime = slot.originalTime

\* s is "<H>h <MM>m" with MM in 00..59, and stands for n minutes.
IsDurationOf(s, n) == n \in Nat /\ s = DurationStr(n)

IsDuration(s) == \E n \in 0..((MaxMinutes + 1) * 60) : IsDurationOf(s, n)

\* C1: a countdown started by toggle on an idle slot whose originalTime
\* parses to M >= 1 is still running, with no notification sent, after fewer
\* than M ticks of its own and nothing else; after exactly M such ticks the
\* slot is reset, the interval is cleared, and exactly one notification has
\* been sent since the start, with the title of the task at that index.
C1_ExpiryOnMthTick ==
    (run # NoRun /\ run.M >= 1) =>
        /\ run.k < run.M =>
              /\ taskStatuses[run.idx].doing
              /\ run.id \in ActiveIds
              /\ Len(notified) = run.n0
        /\ run.k = run.M =>
              /\ Reset(taskStatuses[run.idx])
              /\ run.id \notin ActiveIds
              /\ Len(notified) = run.n0 + 1
              /\ notified[Len(notified)] = tasks[run.idx].title

\* C2: right after a reload no interval is left scheduled, so no tick of a
\* countdown started before the reload can fire.
C2_ReloadCancelsIntervals ==
    lastOp.op = "load" => intervals = {}

\* C3: right after a toggle on a running slot the slot is reset and the
\* interval stored for it is no longer scheduled; and a slot stopped that way
\* and not started since still shows its full originalTime, so that a later
\* start counts down from it.
C3_StopCancelsAndResets ==
    /\ lastOp.op \in {"stop", "startStop"} =>
          /\ Reset(taskStatuses[lastOp.idx])
          /\ StoredHandle(lastOp.idx) \notin ActiveIds
    /\ \A i \in stopped :
          i \in DOMAIN taskStatuses =>
              parseRemaining(taskStatuses[i].remainingTime)
                  = parseRemaining(taskStatuses[i].originalTime)

\* C4: after two toggles on an idle slot with no tick in between the slot is
\* back to doing = false with remainingTime = originalTime, whether the second
\* call came from a new render ("stop") or from the same render as the first
\* ("startStop").
C4_ToggleTwiceResetsSlot ==
    lastOp.op \in {"stop", "startStop"} => Reset(taskStatuses[lastOp.idx])

\* C5: a slot has doing = true exactly when its stored handle is the id of an
\* interval that is still scheduled.
C5_DoingIffHandleActive ==
    \A i \in DOMAIN taskStatuses :
        taskStatuses[i].doing <=> (StoredHandle(i) \in ActiveIds)

\* C6: at most one scheduled interval per slot index.
C6_OneIntervalPerSlot ==
    \A i \in 1..MaxTasks : Cardinality(IntervalsOf(i)) <= 1

\* C7: right after updateTask (edit or delete) there is exactly one slot per
\* task, each idle with remainingTime = originalTime = the task's time, and no
\* interval is left scheduled.
C7_MutateReinitializes ==
    lastOp.op \in {"delete", "edit"} =>
        /\ DOMAIN taskStatuses = DOMAIN tasks
        /\ \A i \in DOMAIN tasks :
              /\ Reset(taskStatuses[i])
              /\ taskStatuses[i].originalTime = tasks[i].time
        /\ intervals = {}

C9_LoadRebuildsSlots ==
    lastOp.op = "load" =>
        /\ tasks = storage
        /\ DOMAIN taskStatuses = DOMAIN tasks
        /\ DOMAIN timers = DOMAIN tasks
        /\ \A i \in DOMAIN tasks :
              /\ ~taskStatuses[i].doing
              /\ taskStatuses[i].remainingTime = tasks[i].time
              /\ taskStatuses[i].originalTime = tasks[i].time
              /\ timers[i] = NoTimer

\* C10: every slot's remainingTime is a well-formed duration of no more
\* minutes than its originalTime.
C10_RemainingWithinOriginal ==
    \A i \in DOMAIN taskStatuses :
        /\ IsDuration(taskStatuses[i].remainingTime)
        /\ parseRemaining(taskStatuses[i].remainingTime)
               <= parseRemaining(taskStatuses[i].originalTime)

\* C11: pressing Start on an idle slot whose remainingTime does not parse is
\* a no-op: the slot is left as it was (doing = false, same remainingTime)
\* and no interval is scheduled.
C11_MalformedStartRefuses ==
    [][ \A i \in DOMAIN taskStatuses :
            ( /\ lastOp' = Op("start", i)
              /\ ~taskStatuses[i].doing
              /\ parseRemaining(taskStatuses[i].remainingTime) = NaN )
            => /\ i \in DOMAIN taskStatuses'
               /\ taskStatuses'[i] = taskStatuses[i]
               /\ intervals' = intervals
      ]_vars

\* C12: a load whose read or decoding fails logs the failure, raises nothing
\* to its caller, and leaves the view with an empty task list and an empty
\* slot map, whether it is the first load or a later one.
C12_ReadFailureEmptiesView ==
    [][ (screen = "blurred" /\ lastOp'.op = "loadFail")
        => /\ consoleErrors' = Append(consoleErrors, "Error fetching tasks:")
           /\ rejections' = rejections
           /\ ~crashed'
           /\ tasks' = <<>>
           /\ taskStatuses' = <<>>
      ]_vars

\* C13: an updateTask whose write fails logs the failure and raises nothing
\* to its caller; tasks holds the mutated sequence and storage keeps its
\* previous value; after a write that succeeds storage holds tasks again.
C13_WriteFailureLoggedNotRaised ==
    [][ /\ (screen = "home" /\ lastOp'.op \in {"deleteFail", "editFail"})
           => /\ Len(consoleErrors') = Len(consoleErrors) + 1
              /\ rejections' = rejections
              /\ storage' = storage
              /\ lastOp'.op = "deleteFail" => tasks' = RemoveAt(tasks, lastOp'.idx)
              /\ lastOp'.op = "editFail" =>
                    /\ Len(tasks') = Len(tasks)
                    /\ \A j \in DOMAIN tasks : j # lastOp'.idx => tasks'[j] = tasks[j]
        /\ (screen = "home" /\ lastOp'.op \in {"delete", "edit"}) => storage' = tasks'
      ]_vars

C15_RoundTrip ==
    probe.stage = "parsed" =>
        /\ probe.text = formatTime(probe.m)
        /\ probe.back = probe.m

\* C16: a countdown started on a slot whose remainingTime parses to R
\* minutes has, after k ticks of its own and nothing else, 0 < k < R, a slot
\* with doing = true and remainingTime = the formatted duration of R - k.
C16_TickDecrementsByOne ==
    (run # NoRun /\ run.R # NaN /\ 0 < run.k /\ run.k < run.R) =>
        /\ taskStatuses[run.idx].doing
        /\ taskStatuses[run.idx].remainingTime = formatTime(run.R - run.k)

\* C17: every scheduled interval has a slot at its index in the current slot
\* map, so that no firing of a callback finds its slot missing, and no
\* updater has thrown.
C17_TickFindsSlot ==
    /\ ~crashed
    /\ \A iv \in intervals : iv.index \in DOMAIN taskStatuses

\* C18: every slot with doing = false has remainingTime = originalTime.
C18_IdleShowsOriginal ==
    \A i \in DOMAIN taskStatuses :
        ~taskStatuses[i].doing =>
            taskStatuses[i].remainingTime = taskStatuses[i].originalTime

\* C20: each notification sent carries the title that the task at the
\* expiring interval's index had when that interval was started, whatever
\* edits, deletions and reloads came in between.
C20_NotificationCarriesStartTitle ==
    [][ Len(notified') = Len(notified) + 1 =>
            /\ \E iv \in intervals : iv.id \notin {x.id : x \in intervals'}
            /\ \A iv \in intervals :
                  iv.id \notin {x.id : x \in intervals'} =>
                      /\ iv.id \in DOMAIN startedTitle
                      /\ notified'[Len(notified')] = startedTitle[iv.id]
      ]_vars

\* The countdown with interval id is scheduled for the slot at index, and
\* the duration it was started with parsed.
Counting(id, index) ==
    \E iv \in intervals : iv.id = id /\ iv.index = index /\ iv.remaining # NaN

\* C19: with every scheduled interval firing again and again, each countdown
\* started with a parsable duration ends: its interval is eventually not
\* scheduled any more, and the slot at its index is eventually idle (after an
\* expiry or a stop) or rebuilt or dropped by a reload.
C19_CountdownEnds ==
    \A id \in 1..MaxTimers, index \in 1..MaxTasks :
        /\ Counting(id, index) ~> (id \notin ActiveIds)
        /\ Counting(id, index) ~>
               (index \in DOMAIN taskStatuses => ~taskStatuses[index].doing)

\* ---------------------------------------------------------------- witnesses
\* C4: handleToggle ran twice from one render on an idle slot whose index an
\* earlier interval still ticks; the slot is reset and the interval the first
\* call started is scheduled.
C4_Witness ==
    /\ lastOp.op = "startStop"
    /\ Reset(taskStatuses[lastOp.idx])
    /\ timers[lastOp.idx] \in ActiveIds
    /\ Cardinality(IntervalsOf(lastOp.idx)) = 2

C9_Witness ==
    /\ lastOp.op = "load"
    /\ Len(tasks) = 2
    /\ intervals # {}
    /\ \A i \in DOMAIN tasks : Reset(taskStatuses[i]) /\ timers[i] = NoTimer

C15_Witness ==
    /\ probe.stage = "parsed"
    /\ probe.m = 125
    /\ probe.text = <<"2", "h", " ", "0", "5", "m">>
    /\ probe.back = 125

\* C16: a countdown started with two minutes remaining has ticked once and
\* its slot shows one minute.
C16_Witness ==
    /\ run # NoRun
    /\ run.R = 2
    /\ run.k = 1
    /\ taskStatuses[run.idx].doing
    /\ taskStatuses[run.idx].remainingTime = <<"0", "h", " ", "0", "1", "m">>

\* C20: a countdown has just expired at an index whose task now has another
\* title than the one notified: the list was edited or shifted, and reloaded,
\* after the start.
C20_Witness ==
    /\ lastOp.op = "expire"
    /\ lastOp.idx \in DOMAIN tasks
    /\ lastOp.idx \in DOMAIN taskStatuses
    /\ notified # <<>>
    /\ notified[Len(notified)] # tasks[lastOp.idx].title

====
